---------------------------- MODULE Spec2Model ----------------------------
(***************************************************************************)
(* Command-dispatch core of the tournament chat-bot (src/commands_core.py)  *)
(* and its registry lookup, argument extraction, validation pipeline,       *)
(* top-level message handling and per-invoker command enumeration.          *)
(*                                                                          *)
(* Representation choices:                                                  *)
(*   - a string token is a TLA+ string; message.content is represented by   *)
(*     the list of its whitespace-separated tokens (what content.split()    *)
(*     yields), since every operation of the module works on that list;     *)
(*   - a Python dict is a function whose domain is its key set;             *)
(*   - Python's None is the string "None";                                  *)
(*   - a channel-type bitmask is the set of its flags, so `a & b` is        *)
(*     intersection and a zero result is the empty set;                     *)
(*   - every call to an external collaborator (permission resolver, channel *)
(*     classifier, persistence, account boundary, tournament-state          *)
(*     validator, chat client, callback) is recorded in `log` together with *)
(*     the value it returned, which is drawn nondeterministically.          *)
(***************************************************************************)
EXTENDS Integers, Sequences, FiniteSets, TLC

VARIABLES
    commands,     \* CommandsHandler._commands: the registry, in registration order
    pc,           \* position of the try_execute coroutine handling `message`
    message,      \* the message being handled
    command,      \* index in `commands` of the recognized command, 0 for None
    postCommand,  \* the post-command token list
    result,       \* what validate_context returned: [validated, exc]
    kwargs,       \* [raised, kwargs]: the keyword map gathered for the callback
    log,          \* external calls made while handling `message`: [op, val]
    sent,         \* chat messages sent while handling `message`
    query,        \* the name last passed to find
    found,        \* what find returned for `query`: a registry index, 0 for None
    it,           \* the AuthorizedCommandsWrapper in use
    pagination,   \* the last call of utils.paginate: [dump, max_per_page, paginated]
    table         \* the last call of utils.print_array: [title, header, iterable, func, arr, finalStr]

vars == <<commands, pc, message, command, postCommand, result, kwargs, log,
          sent, query, found, it, pagination, table>>

dispatchVars == <<pc, message, command, postCommand, result, kwargs, log, sent>>
findVars == <<query, found>>
utilVars == <<pagination, table>>

(***************************************************************************)
(* Bounds of the model.                                                     *)
(***************************************************************************)
MaxCommands == 2
MaxAliases == 2
MaxParams == 2
MaxTokens == 3
MaxText == 6
MaxPage == 4
MaxItems == 3

(***************************************************************************)
(* Values.                                                                  *)
(***************************************************************************)
None == "None"

\* Permission levels in increasing order (Permissions enum).
Permissions == <<"User", "Moderator">>

PermLevel(p) == CHOOSE i \in DOMAIN Permissions : Permissions[i] = p

\* Flags of the ChannelType bitmask.
ChannelType == {"Other", "Tournament"}

ChallongeAccess == {"NotRequired", "RequiredForAuthor", "RequiredForHost"}

\* Errors the account boundary reports (challonge_accounts).
AccountErrors == {"UserNotFound", "UserNameNotSet", "APIKeyNotSet", "InvalidCredentials"}

\* The server's configured trigger (db.get_server(message.server).trigger).
commandTrigger == "!"

\* An error value: the four kinds fabricated here and the account boundary's.
Exc(kind) == [kind |-> kind]

NoneExc == Exc(None)

MissingParameters(req, given) == [kind |-> "MissingParameters", req |-> req, given |-> given]

EmptyDict == [k \in {} |-> ""]

Put(d, k, v) == [x \in DOMAIN d \cup {k} |-> IF x = k THEN v ELSE d[x]]

\* All sequences over S of length at most n.
SeqUpTo(S, n) == UNION {[1..k -> S] : k \in 0..n}

\* The variables' values while no message, result, map or iterator exists.
NoMessage == [content |-> <<>>, is_private |-> TRUE, mentions_bot |-> FALSE]

NoResult == [validated |-> FALSE, exc |-> Exc("unset")]

NoKwargs == [raised |-> FALSE, kwargs |-> EmptyDict]

NoIterator == [state |-> "none", pos |-> 0, yielded |-> <<>>, outcomes |-> <<>>]
\* No call of paginate made.
NoPagination == [dump |-> <<>>, max_per_page |-> 0, paginated |-> <<>>]
\* No call of print_array made.
NoTable ==
    [title |-> "", header |-> "", iterable |-> <<>>, func |-> EmptyDict, arr |-> <<>>,
     finalStr |-> ""]

(***************************************************************************)
(* Attributes and Command.                                                  *)
(***************************************************************************)
Attributes(minPermissions, channelRestrictions, challongeAccess, tournamentState) ==
    [minPermissions |-> minPermissions,
     channelRestrictions |-> channelRestrictions,
     challongeAccess |-> challongeAccess,
     tournamentState |-> tournamentState]

\* Attributes(): every keyword left at its default.
DefaultAttributes == Attributes("User", {"Other"}, "NotRequired", None)

Command(name, attributes) ==
    [name |-> name,
     attributes |-> attributes,
     aliases |-> <<>>,
     reqParams |-> <<>>,
     optParams |-> <<>>,
     helpers |-> <<>>]

\* The range of a sequence.
Range(s) == {s[i] : i \in DOMAIN s}

\* A validate_name that looks at the name alone.
validate_name_NameOnly(c, name) == c.name = name

validate_name(c, name) ==
    IF c.name = name THEN TRUE
    ELSE name \in Range(c.aliases)

\* A find that prefers a command registered under the name to an earlier
\* command having it as an alias.
find_NameFirst(cmds, name) ==
    IF \E i \in DOMAIN cmds : cmds[i].name = name
    THEN CHOOSE i \in DOMAIN cmds :
            /\ cmds[i].name = name
            /\ \A j \in 1..(i - 1) : cmds[j].name # name
    ELSE IF \E i \in DOMAIN cmds : name \in Range(cmds[i].aliases)
    THEN CHOOSE i \in DOMAIN cmds :
            /\ name \in Range(cmds[i].aliases)
            /\ \A j \in 1..(i - 1) : name \notin Range(cmds[j].aliases)
    ELSE 0

\* find: the first command, in registry order, that validate_name accepts;
\* 0 stands for None.
find(cmds, name) ==
    IF \E i \in DOMAIN cmds : validate_name(cmds[i], name)
    THEN CHOOSE i \in DOMAIN cmds :
            /\ validate_name(cmds[i], name)
            /\ \A j \in 1..(i - 1) : ~validate_name(cmds[j], name)
    ELSE 0

(***************************************************************************)
(* Registration: the register decorator appends a Command; the builder     *)
(* decorators then set a list of the command they are applied to.          *)
(***************************************************************************)
\* A registration that keeps names unique: a command registered under a
\* name already present takes the place of the earlier one.
Register_Replacing(name, attributes) ==
    /\ pc = "idle"
    /\ Len(commands) < MaxCommands
    /\ commands' = IF \E i \in DOMAIN commands : commands[i].name = name
                   THEN [i \in DOMAIN commands |->
                            IF commands[i].name = name THEN Command(name, attributes)
                            ELSE commands[i]]
                   ELSE Append(commands, Command(name, attributes))
    /\ UNCHANGED <<dispatchVars, findVars, it, utilVars>>

Register(name, attributes) ==
    /\ pc = "idle"
    /\ Len(commands) < MaxCommands
    /\ commands' = Append(commands, Command(name, attributes))
    /\ UNCHANGED <<dispatchVars, findVars, it, utilVars>>

\* The registration of the first command.
RegisterFirst(name, attributes) ==
    /\ commands = <<>>
    /\ Register(name, attributes)

add_aliases(i, args) ==
    /\ pc = "idle"
    /\ i \in DOMAIN commands
    /\ commands' = [commands EXCEPT ![i].aliases = args]
    /\ UNCHANGED <<dispatchVars, findVars, it, utilVars>>

add_required_params(i, args) ==
    /\ pc = "idle"
    /\ i \in DOMAIN commands
    /\ commands' = [commands EXCEPT ![i].reqParams = args]
    /\ UNCHANGED <<dispatchVars, findVars, it, utilVars>>

add_optional_params(i, args) ==
    /\ pc = "idle"
    /\ i \in DOMAIN commands
    /\ commands' = [commands EXCEPT ![i].optParams = args]
    /\ UNCHANGED <<dispatchVars, findVars, it, utilVars>>

add_helpers(i, args) ==
    /\ pc = "idle"
    /\ i \in DOMAIN commands
    /\ commands' = [commands EXCEPT ![i].helpers = args]
    /\ UNCHANGED <<dispatchVars, findVars, it, utilVars>>

\* A call of CommandsHandler.find.
Find(name) ==
    /\ pc = "idle"
    /\ pc' = "done"
    /\ query' = name
    /\ found' = find(commands, name)
    /\ UNCHANGED <<commands, message, command, postCommand, result, kwargs, log, sent, it, utilVars>>

(***************************************************************************)
(* Recognition of a command in a raw message.                               *)
(***************************************************************************)
Call(op, val) == [op |-> op, val |-> val]

\* A slice that starts one token too early.
SliceFrom_OneEarly(split, offset) == SubSeq(split, offset, Len(split))

\* split[offset:] for a 0-based offset.
SliceFrom(split, offset) == SubSeq(split, offset + 1, Len(split))

\* A recognition that, in a server channel, looks for neither the trigger
\* nor a mention of the bot.
_get_command_and_postcommand_AnyPrefix(cmds, m) ==
    LET split == m.content
        server == <<Call("get_server", commandTrigger)>>
        offset == IF m.is_private THEN 1 ELSE 2
        c == IF Len(split) >= offset THEN find(cmds, split[offset]) ELSE 0
    IN  IF c # 0
        THEN [command |-> c, postCommand |-> SubSeq(split, offset + 1, Len(split)),
              calls |-> IF m.is_private THEN <<>> ELSE server]
        ELSE [command |-> 0, postCommand |-> <<>>,
              calls |-> IF m.is_private \/ Len(split) = 0 THEN <<>> ELSE server]

\* _get_command_and_postcommand: [command, postCommand, calls]; command 0 and
\* an empty list stand for (None, None).
_get_command_and_postcommand(cmds, m) ==
    LET split == m.content
        none(calls) == [command |-> 0, postCommand |-> <<>>, calls |-> calls]
        some(c, offset, calls) ==
            IF c # 0
            THEN [command |-> c, postCommand |-> SliceFrom(split, offset), calls |-> calls]
            ELSE none(calls)
        server == <<Call("get_server", commandTrigger)>>
    IN  IF Len(split) = 0 THEN none(<<>>)
        ELSE IF m.is_private THEN some(find(cmds, split[1]), 1, <<>>)
        ELSE IF Len(split) <= 1 THEN none(server)
        ELSE IF split[1] = commandTrigger \/ m.mentions_bot
             THEN some(find(cmds, split[2]), 2, server)
             ELSE none(server)

(***************************************************************************)
(* validate_context.  `o` holds what the external collaborators answer when *)
(* asked: o.perm, o.chan, o.acc ("ok" or an account error), o.state ("ok",  *)
(* "bad" or "raise").  The result is [raised, validated, exc, calls], calls *)
(* being the external calls actually made, in order.                        *)
(***************************************************************************)
Returns(validated, exc, calls) ==
    [raised |-> FALSE, validated |-> validated, exc |-> exc, calls |-> calls]

Raises(calls) ==
    [raised |-> TRUE, validated |-> FALSE, exc |-> NoneExc, calls |-> calls]

\* An argument-count check that also demands the optional parameters.
CheckParams_CountsOptional(c, post, calls) ==
    LET reqParamsExpected == Len(c.reqParams) + Len(c.optParams)
        givenParams == Len(post)
    IN  IF givenParams < reqParamsExpected
        THEN Returns(FALSE, MissingParameters(reqParamsExpected, givenParams), calls)
        ELSE Returns(TRUE, NoneExc, calls)

\* Lines 97-102: the argument-count check and the final return.
CheckParams(c, post, calls) ==
    LET reqParamsExpected == Len(c.reqParams)
        givenParams == Len(post)
    IN  IF givenParams < reqParamsExpected
        THEN Returns(FALSE, MissingParameters(reqParamsExpected, givenParams), calls)
        ELSE Returns(TRUE, NoneExc, calls)

\* An account check that asks the tournament-state validator before looking
\* at the error of the host account lookup.
CheckAccount_StateBeforeError(c, o, post, calls) ==
    LET acc == Call("get_account", o.acc)
        st == Call("validate_tournament_state", o.state)
    IN  IF c.attributes.challongeAccess = "RequiredForAuthor"
        THEN IF o.acc # "ok"
             THEN Returns(FALSE, Exc(o.acc), Append(calls, acc))
             ELSE CheckParams(c, post, Append(calls, acc))
        ELSE IF c.attributes.challongeAccess = "RequiredForHost"
        THEN LET calls1 == calls \o <<Call("get_tournament", "host_id"), acc>>
             IN  IF c.attributes.tournamentState # None
                 THEN IF o.state = "raise" THEN Raises(Append(calls1, st))
                      ELSE IF o.state # "ok"
                      THEN Returns(FALSE, Exc("BadTournamentState"), Append(calls1, st))
                      ELSE IF o.acc # "ok"
                      THEN Returns(FALSE, Exc(o.acc), Append(calls1, st))
                      ELSE CheckParams(c, post, Append(calls1, st))
                 ELSE IF o.acc # "ok" THEN Returns(FALSE, Exc(o.acc), calls1)
                 ELSE CheckParams(c, post, calls1)
        ELSE CheckParams(c, post, calls)

\* An account check that enforces the tournament state for the author's
\* account as well.
CheckAccount_StateForAuthor(c, o, post, calls) ==
    LET acc == Call("get_account", o.acc)
        st == Call("validate_tournament_state", o.state)
        calls1 == IF c.attributes.challongeAccess = "RequiredForHost"
                  THEN calls \o <<Call("get_tournament", "host_id"), acc>>
                  ELSE Append(calls, acc)
    IN  IF c.attributes.challongeAccess = "NotRequired"
        THEN CheckParams(c, post, calls)
        ELSE IF o.acc # "ok" THEN Returns(FALSE, Exc(o.acc), calls1)
        ELSE IF c.attributes.tournamentState # None
        THEN IF o.state = "raise" THEN Raises(Append(calls1, st))
             ELSE IF o.state # "ok"
             THEN Returns(FALSE, Exc("BadTournamentState"), Append(calls1, st))
             ELSE CheckParams(c, post, Append(calls1, st))
        ELSE CheckParams(c, post, calls1)

\* Lines 84-95: the account lookup and the tournament-state check.
CheckAccount(c, o, post, calls) ==
    LET acc == Call("get_account", o.acc)
        st == Call("validate_tournament_state", o.state)
    IN  IF c.attributes.challongeAccess = "RequiredForAuthor"
        THEN IF o.acc # "ok"
             THEN Returns(FALSE, Exc(o.acc), Append(calls, acc))
             ELSE CheckParams(c, post, Append(calls, acc))
        ELSE IF c.attributes.challongeAccess = "RequiredForHost"
        THEN LET calls1 == calls \o <<Call("get_tournament", "host_id"), acc>>
             IN  IF o.acc # "ok" THEN Returns(FALSE, Exc(o.acc), calls1)
                 ELSE IF c.attributes.tournamentState # None
                 THEN IF o.state = "raise" THEN Raises(Append(calls1, st))
                      ELSE IF o.state # "ok"
                      THEN Returns(FALSE, Exc("BadTournamentState"), Append(calls1, st))
                      ELSE CheckParams(c, post, Append(calls1, st))
                 ELSE CheckParams(c, post, calls1)
        ELSE CheckParams(c, post, calls)

\* A validate_context that looks at the channel type before the permission
\* level.
validate_context_ChannelFirst(c, o, post) ==
    LET calls1 == <<Call("get_channel_type", o.chan)>>
        calls2 == Append(calls1, Call("get_permissions", o.perm))
    IN  IF ({o.chan} \cap c.attributes.channelRestrictions) = {}
        THEN Returns(FALSE, Exc("WrongChannel"), calls1)
        ELSE IF PermLevel(o.perm) < PermLevel(c.attributes.minPermissions)
        THEN Returns(FALSE, Exc("InsufficientPrivileges"), calls2)
        ELSE CheckAccount(c, o, post, calls2)

validate_context(c, o, post) ==
    LET calls1 == <<Call("get_permissions", o.perm)>>
        calls2 == Append(calls1, Call("get_channel_type", o.chan))
    IN  IF PermLevel(o.perm) < PermLevel(c.attributes.minPermissions)
        THEN Returns(FALSE, Exc("InsufficientPrivileges"), calls1)
        ELSE IF ({o.chan} \cap c.attributes.channelRestrictions) = {}
        THEN Returns(FALSE, Exc("WrongChannel"), calls2)
        ELSE CheckAccount(c, o, post, calls2)

\* The answers the collaborators can give to validate_context.
Oracles ==
    [perm : Range(Permissions), chan : ChannelType,
     acc : {"ok"} \cup AccountErrors, state : {"ok", "bad", "raise"}]

\* The answers the collaborators can give to _fetch_helpers.
HelperOracles == [acc : {"ok"} \cup AccountErrors, helper : {"ok", "raise"}]

(***************************************************************************)
(* Argument and helper gathering.                                           *)
(***************************************************************************)
\* Lines 137-138: kwargs[x] = postCommand[count] for the required parameters
\* from the 0-based position `count` on.
RECURSIVE BindRequired(_, _, _, _)
BindRequired(reqParams, post, count, kw) ==
    IF count >= Len(reqParams) THEN kw
    ELSE BindRequired(reqParams, post, count + 1,
                      Put(kw, reqParams[count + 1], post[count + 1]))

\* A binding of the optional parameters that starts at the first token.
RECURSIVE BindOptional_NoOffset(_, _, _, _, _)
BindOptional_NoOffset(optParams, post, offset, count, kw) ==
    IF count >= Len(optParams) THEN kw
    ELSE BindOptional_NoOffset(optParams, post, offset, count + 1,
                               IF count < Len(post)
                               THEN Put(kw, optParams[count + 1], post[count + 1])
                               ELSE kw)

\* Lines 141-143: the optional parameters, each bound when a token exists.
RECURSIVE BindOptional(_, _, _, _, _)
BindOptional(optParams, post, offset, count, kw) ==
    IF count >= Len(optParams) THEN kw
    ELSE BindOptional(optParams, post, offset, count + 1,
                      IF count + offset < Len(post)
                      THEN Put(kw, optParams[count + 1], post[count + offset + 1])
                      ELSE kw)

\* _fetch_args: [raised, kwargs]; it raises (IndexError) when a required
\* parameter has no token.
_fetch_args(c, post) ==
    IF Len(post) < Len(c.reqParams)
    THEN [raised |-> TRUE, kwargs |-> EmptyDict]
    ELSE [raised |-> FALSE,
          kwargs |-> BindOptional(c.optParams, post, Len(c.reqParams), 0,
                                  BindRequired(c.reqParams, post, 0, EmptyDict))]

\* ' '.join(tokens)
RECURSIVE Join(_)
Join(tokens) ==
    IF Len(tokens) = 0 THEN ""
    ELSE IF Len(tokens) = 1 THEN tokens[1]
    ELSE tokens[1] \o " " \o Join(Tail(tokens))

\* The helpers resolved through an external lookup, and what each asks.
LookupHelpers ==
    {"account", "tournament_id", "tournament_role", "tournament_channel",
     "participant_username"}

\* The value a helper resolves to.
HelperValue(c, x, o, post) ==
    IF x = "account" THEN (IF o.acc = "ok" THEN "acc" ELSE None)
    ELSE IF x = "announcement" THEN Join(post)
    ELSE x

\* _fetch_helpers from the i-th helper on: [raised, kwargs, calls].  An
\* external lookup may raise (o.helper = "raise"); nothing here catches it.
RECURSIVE FetchHelpersFrom(_, _, _, _, _, _)
FetchHelpersFrom(c, post, o, i, kw, calls) ==
    IF i > Len(c.helpers) THEN [raised |-> FALSE, kwargs |-> kw, calls |-> calls]
    ELSE LET x == c.helpers[i]
         IN  IF x \in LookupHelpers
             THEN IF o.helper = "raise"
                  THEN [raised |-> TRUE, kwargs |-> kw,
                        calls |-> Append(calls, Call(x, "raise"))]
                  ELSE FetchHelpersFrom(c, post, o, i + 1,
                                        Put(kw, x, HelperValue(c, x, o, post)),
                                        Append(calls, Call(x, HelperValue(c, x, o, post))))
             ELSE IF x = "announcement"
             THEN FetchHelpersFrom(c, post, o, i + 1,
                                   Put(kw, x, HelperValue(c, x, o, post)), calls)
             ELSE FetchHelpersFrom(c, post, o, i + 1, kw, calls)

_fetch_helpers(c, post, o) == FetchHelpersFrom(c, post, o, 1, EmptyDict, <<>>)

\* A merge in which the entries already present win.
Update_KeepFirst(d1, d2) ==
    [k \in DOMAIN d1 \cup DOMAIN d2 |-> IF k \in DOMAIN d1 THEN d1[k] ELSE d2[k]]

\* dict.update: the entries of d2 over those of d1.
Update(d1, d2) ==
    [k \in DOMAIN d1 \cup DOMAIN d2 |-> IF k \in DOMAIN d2 THEN d2[k] ELSE d1[k]]

(***************************************************************************)
(* try_execute, in the steps between which the coroutine is suspended.      *)
(***************************************************************************)
\* Line 216: a message arrives and a command is looked for in it.
TryExecute(m) ==
    /\ pc = "idle"
    /\ message' = m
    /\ LET r == _get_command_and_postcommand(commands, m)
       IN  /\ command' = r.command
           /\ postCommand' = r.postCommand
           /\ log' = r.calls
           /\ pc' = IF r.command = 0 THEN "done" ELSE "recognized"
    /\ UNCHANGED <<commands, result, kwargs, sent, findVars, it, utilVars>>

\* A validation step without the catch-all: an error raised by
\* validate_context leaves try_execute.
ValidateContext_Uncaught(o) ==
    /\ pc = "recognized"
    /\ LET v == validate_context(commands[command], o, postCommand)
       IN  IF v.raised
           THEN /\ pc' = "raised"
                /\ result' = NoResult
                /\ log' = log \o v.calls
           ELSE /\ pc' = "validated"
                /\ result' = [validated |-> v.validated, exc |-> v.exc]
                /\ log' = log \o v.calls
    /\ UNCHANGED <<commands, message, command, postCommand, kwargs, sent, findVars, it, utilVars>>

\* A validation step whose handler logs the error and raises it again.
ValidateContext_LogAndReraise(o) ==
    /\ pc = "recognized"
    /\ LET v == validate_context(commands[command], o, postCommand)
       IN  IF v.raised
           THEN /\ pc' = "raised"
                /\ result' = NoResult
                /\ log' = log \o v.calls \o <<Call("print", "Exception")>>
           ELSE /\ pc' = "validated"
                /\ result' = [validated |-> v.validated, exc |-> v.exc]
                /\ log' = log \o v.calls
    /\ UNCHANGED <<commands, message, command, postCommand, kwargs, sent, findVars, it,
                   utilVars>>

\* Lines 218-222: validate_context under the catch-all.
ValidateContext(o) ==
    /\ pc = "recognized"
    /\ LET v == validate_context(commands[command], o, postCommand)
       IN  IF v.raised
           THEN /\ pc' = "done"
                /\ result' = NoResult
                /\ log' = log \o v.calls \o <<Call("print", "Exception")>>
           ELSE /\ pc' = "validated"
                /\ result' = [validated |-> v.validated, exc |-> v.exc]
                /\ log' = log \o v.calls
    /\ UNCHANGED <<commands, message, command, postCommand, kwargs, sent, findVars, it, utilVars>>

\* A failure that is dropped instead of being sent.
SendFailure_Dropped ==
    /\ pc = "validated"
    /\ result.exc # NoneExc
    /\ pc' = "done"
    /\ UNCHANGED <<commands, message, command, postCommand, result, kwargs, log, sent,
                   findVars, it, utilVars>>

\* Lines 224-225: a failure value is sent to the originating channel.
SendFailure ==
    /\ pc = "validated"
    /\ result.exc # NoneExc
    /\ sent' = Append(sent, result.exc)
    /\ log' = Append(log, Call("send_message", result.exc.kind))
    /\ pc' = "done"
    /\ UNCHANGED <<commands, message, command, postCommand, result, kwargs, findVars, it, utilVars>>

\* An execution that reports the error of the account helper's lookup
\* instead of calling the callback.
Execute_ChecksAccount(o) ==
    /\ pc = "validated"
    /\ result.exc = NoneExc
    /\ result.validated
    /\ LET c == commands[command]
           a == _fetch_args(c, postCommand)
           h == _fetch_helpers(c, postCommand, o)
       IN  IF a.raised \/ h.raised
           THEN /\ pc' = "raised"
                /\ kwargs' = [raised |-> TRUE, kwargs |-> EmptyDict]
                /\ log' = log \o h.calls
                /\ UNCHANGED sent
           ELSE IF "account" \in Range(c.helpers) /\ o.acc # "ok"
           THEN /\ pc' = "done"
                /\ kwargs' = [raised |-> FALSE, kwargs |-> Update(a.kwargs, h.kwargs)]
                /\ log' = log \o h.calls \o <<Call("send_message", o.acc)>>
                /\ sent' = Append(sent, Exc(o.acc))
           ELSE /\ pc' = "callback"
                /\ kwargs' = [raised |-> FALSE, kwargs |-> Update(a.kwargs, h.kwargs)]
                /\ log' = log \o h.calls \o <<Call("cb", "called")>>
                /\ UNCHANGED sent
    /\ UNCHANGED <<commands, message, command, postCommand, result, findVars, it, utilVars>>

\* Lines 226-227 and Command.execute up to the call of the callback.
Execute(o) ==
    /\ pc = "validated"
    /\ result.exc = NoneExc
    /\ IF ~result.validated
       THEN /\ pc' = "done"
            /\ UNCHANGED <<kwargs, log>>
       ELSE LET c == commands[command]
                a == _fetch_args(c, postCommand)
                h == _fetch_helpers(c, postCommand, o)
            IN  IF a.raised
                THEN /\ pc' = "raised"
                     /\ kwargs' = [raised |-> TRUE, kwargs |-> EmptyDict]
                     /\ UNCHANGED log
                ELSE IF h.raised
                THEN /\ pc' = "raised"
                     /\ kwargs' = [raised |-> TRUE, kwargs |-> EmptyDict]
                     /\ log' = log \o h.calls
                ELSE /\ pc' = "callback"
                     /\ kwargs' = [raised |-> FALSE, kwargs |-> Update(a.kwargs, h.kwargs)]
                     /\ log' = log \o h.calls \o <<Call("cb", "called")>>
    /\ UNCHANGED <<commands, message, command, postCommand, result, sent, findVars, it, utilVars>>

\* Lines 228-231: the callback returned; the success line is written.
CallbackReturns ==
    /\ pc = "callback"
    /\ pc' = "done"
    /\ log' = Append(log, Call("print", "ValidatedCommand"))
    /\ UNCHANGED <<commands, message, command, postCommand, result, kwargs, sent, findVars, it, utilVars>>

\* A callback error that is swallowed: the success line is written.
CallbackRaises_Swallowed ==
    /\ pc = "callback"
    /\ pc' = "done"
    /\ log' = log \o <<Call("cb", "raise"), Call("print", "ValidatedCommand")>>
    /\ UNCHANGED <<commands, message, command, postCommand, result, kwargs, sent, findVars,
                   it, utilVars>>

\* The callback raised: the error leaves execute and try_execute.
CallbackRaises ==
    /\ pc = "callback"
    /\ pc' = "raised"
    /\ log' = Append(log, Call("cb", "raise"))
    /\ UNCHANGED <<commands, message, command, postCommand, result, kwargs, sent, findVars, it, utilVars>>

(***************************************************************************)
(* Command._fetch_args called on the first command with a token list.       *)
(***************************************************************************)
FetchArgs(post) ==
    /\ pc = "idle"
    /\ commands # <<>>
    /\ pc' = "done"
    /\ command' = 1
    /\ postCommand' = post
    /\ kwargs' = _fetch_args(commands[1], post)
    /\ UNCHANGED <<commands, message, result, log, sent, findVars, it, utilVars>>

(***************************************************************************)
(* AuthorizedCommandsWrapper.                                               *)
(***************************************************************************)
\* ' '.join of the parameters, each between the brackets open and close.
RECURSIVE JoinBracketed(_, _, _)
JoinBracketed(params, open, close) ==
    IF Len(params) = 0 THEN ""
    ELSE IF Len(params) = 1 THEN open \o params[1] \o close
    ELSE open \o params[1] \o close \o " " \o JoinBracketed(Tail(params), open, close)

\* simple_print, for a callback without documentation text.  An apostrophe
\* stands for the backquote, which a string of this language cannot hold.
simple_print(c) ==
    "'" \o c.name \o "' " \o JoinBracketed(c.reqParams, "[", "]")
        \o JoinBracketed(c.optParams, "{", "}") \o " -- *No description available*"

\* __init__: an iterator over the registry is taken.
NewWrapper ==
    /\ pc = "idle"
    /\ pc' = "listing"
    /\ it' = [state |-> "ready", pos |-> 0, yielded |-> <<>>, outcomes |-> <<>>]
    /\ UNCHANGED <<commands, message, command, postCommand, result, kwargs, log, sent, findVars, utilVars>>

\* An __anext__ that ends the iteration at the first command it may not
\* list.
Anext_StopAtFailure(o) ==
    /\ pc = "listing"
    /\ it.state \in {"ready", "skipping"}
    /\ IF it.pos >= Len(commands)
       THEN it' = [it EXCEPT !.state = "exhausted"]
       ELSE LET c == commands[it.pos + 1]
                v == validate_context(c, o, <<>>)
            IN  IF v.raised
                THEN it' = [it EXCEPT !.state = "raised", !.pos = @ + 1,
                                      !.outcomes = Append(@, "raised")]
                ELSE IF v.validated \/ v.exc.kind = "MissingParameters"
                THEN it' = [it EXCEPT !.state = "ready", !.pos = @ + 1,
                                      !.outcomes = Append(@, v.exc.kind),
                                      !.yielded = Append(@, simple_print(c))]
                ELSE it' = [it EXCEPT !.state = "exhausted", !.pos = @ + 1,
                                      !.outcomes = Append(@, v.exc.kind)]
    /\ UNCHANGED <<commands, dispatchVars, findVars, utilVars>>

\* One round of __anext__: the next command is taken from the iterator and
\* validated with an empty token list; it is yielded, or skipped by the
\* recursive call, or the iterator is exhausted, or validate_context raises.
Anext(o) ==
    /\ pc = "listing"
    /\ it.state \in {"ready", "skipping"}
    /\ IF it.pos >= Len(commands)
       THEN it' = [it EXCEPT !.state = "exhausted"]
       ELSE LET c == commands[it.pos + 1]
                v == validate_context(c, o, <<>>)
            IN  IF v.raised
                THEN it' = [it EXCEPT !.state = "raised", !.pos = @ + 1,
                                      !.outcomes = Append(@, "raised")]
                ELSE IF v.validated \/ v.exc.kind = "MissingParameters"
                THEN it' = [it EXCEPT !.state = "ready", !.pos = @ + 1,
                                      !.outcomes = Append(@, v.exc.kind),
                                      !.yielded = Append(@, simple_print(c))]
                ELSE it' = [it EXCEPT !.state = "skipping", !.pos = @ + 1,
                                      !.outcomes = Append(@, v.exc.kind)]
    /\ UNCHANGED <<commands, dispatchVars, findVars, utilVars>>

(***************************************************************************)
(* utils.py.  A text is the sequence of its characters; a line terminator   *)
(* is "\n", "\r" or the pair "\r\n".                                        *)
(***************************************************************************)
\* A slice that takes one character more than dump[from:to].
Slice_OneMore(dump, from, to) ==
    SubSeq(dump, from + 1, IF to + 1 < Len(dump) THEN to + 1 ELSE Len(dump))

\* dump[from:to] for 0-based offsets, the end clamped to the length.
Slice(dump, from, to) ==
    SubSeq(dump, from + 1, IF to < Len(dump) THEN to ELSE Len(dump))

\* str.splitlines(True) from the 1-based position i on, cur being the line
\* read so far.
RECURSIVE SplitLinesFrom(_, _, _)
SplitLinesFrom(dump, i, cur) ==
    IF i > Len(dump) THEN (IF cur = <<>> THEN <<>> ELSE <<cur>>)
    ELSE IF dump[i] = "\r" /\ i < Len(dump) /\ dump[i + 1] = "\n"
    THEN <<cur \o <<"\r", "\n">>>> \o SplitLinesFrom(dump, i + 2, <<>>)
    ELSE IF dump[i] \in {"\n", "\r"}
    THEN <<Append(cur, dump[i])>> \o SplitLinesFrom(dump, i + 1, <<>>)
    ELSE SplitLinesFrom(dump, i + 1, Append(cur, dump[i]))

splitlines(dump) == SplitLinesFrom(dump, 1, <<>>)

\* Lines 38-46: the loop over the lines, i being the 0-based index.
RECURSIVE PaginateFrom(_, _, _, _, _, _, _)
PaginateFrom(dump, max_per_page, split, i, page_index, len_count, paginated) ==
    IF i >= Len(split) THEN paginated
    ELSE LET line == split[i + 1]
         IN  IF i = Len(split) - 1
             THEN PaginateFrom(dump, max_per_page, split, i + 1, page_index, len_count,
                               Append(paginated, Slice(dump, page_index, Len(dump))))
             ELSE IF len_count + Len(line) >= max_per_page
             THEN PaginateFrom(dump, max_per_page, split, i + 1,
                               page_index + len_count, Len(line),
                               Append(paginated,
                                      Slice(dump, page_index, page_index + len_count)))
             ELSE PaginateFrom(dump, max_per_page, split, i + 1, page_index,
                               len_count + Len(line), paginated)

paginate(dump, max_per_page) ==
    IF Len(dump) < max_per_page THEN <<dump>>
    ELSE PaginateFrom(dump, max_per_page, splitlines(dump), 0, 0, 0, <<>>)

\* A call of paginate.
Paginate(dump, max_per_page) ==
    /\ pc = "idle"
    /\ pc' = "done"
    /\ pagination' = [dump |-> dump, max_per_page |-> max_per_page,
                      paginated |-> paginate(dump, max_per_page)]
    /\ UNCHANGED <<commands, message, command, postCommand, result, kwargs, log, sent,
                   findVars, it, table>>

\* str.ljust(width, fill)
RECURSIVE ljust(_, _, _)
ljust(str, width, fill) ==
    IF Len(str) >= width THEN str ELSE ljust(str \o fill, width, fill)

\* '\n'.join(arr)
RECURSIVE JoinLines(_)
JoinLines(arr) ==
    IF Len(arr) = 0 THEN ""
    ELSE IF Len(arr) = 1 THEN arr[1]
    ELSE arr[1] \o "\n" \o JoinLines(Tail(arr))

\* A loop that drops the empty renderings only.
RECURSIVE RenderRows_KeepNone(_, _, _, _)
RenderRows_KeepNone(iterable, func, i, arr) ==
    IF i > Len(iterable) THEN arr
    ELSE LET str == func[iterable[i]]
         IN  RenderRows_KeepNone(iterable, func, i + 1,
                                 IF str # "" THEN Append(arr, str) ELSE arr)

\* Lines 19-22: the loop over the items, from the i-th on.
RECURSIVE RenderRows(_, _, _, _)
RenderRows(iterable, func, i, arr) ==
    IF i > Len(iterable) THEN arr
    ELSE LET str == func[iterable[i]]
         IN  RenderRows(iterable, func, i + 1,
                        IF str # None /\ str # "" THEN Append(arr, str) ELSE arr)

\* print_array: the list arr and the string returned.
print_array(title, header, iterable, func) ==
    LET vertSep == "|"
        arraySep == "="
        headerSep == "-"
        lineLen == Len(header)
        arrayLineSeparators == ljust("", lineLen, arraySep)
        headerLineSeparators == ljust(vertSep, lineLen - 1, headerSep) \o vertSep
        head == <<arrayLineSeparators,
                  vertSep \o " " \o ljust(title, lineLen - 3, " ") \o vertSep,
                  headerLineSeparators,
                  header,
                  headerLineSeparators>>
        arr == Append(RenderRows(iterable, func, 1, head), arrayLineSeparators)
    IN  [arr |-> arr, finalStr |-> JoinLines(arr)]

\* A call of print_array.
PrintArray(title, header, iterable, func) ==
    /\ pc = "idle"
    /\ pc' = "done"
    /\ LET r == print_array(title, header, iterable, func)
       IN  table' = [title |-> title, header |-> header, iterable |-> iterable,
                     func |-> func, arr |-> r.arr, finalStr |-> r.finalStr]
    /\ UNCHANGED <<commands, message, command, postCommand, result, kwargs, log, sent,
                   findVars, it, pagination>>

\* The operation in progress is left, normally or by an error: its frame
\* and its results are dropped.
Return ==
    /\ \/ pc \in {"done", "raised"}
       \/ pc = "listing" /\ it.state \in {"exhausted", "raised"}
    /\ pc' = "idle"
    /\ message' = NoMessage
    /\ command' = 0
    /\ postCommand' = <<>>
    /\ result' = NoResult
    /\ kwargs' = NoKwargs
    /\ log' = <<>>
    /\ sent' = <<>>
    /\ query' = None
    /\ found' = 0
    /\ it' = NoIterator
    /\ pagination' = NoPagination
    /\ table' = NoTable
    /\ UNCHANGED commands

(***************************************************************************)
(* Initial state: an empty registry, no message received yet.               *)
(***************************************************************************)
Init ==
    /\ commands = <<>>
    /\ pc = "idle"
    /\ message = NoMessage
    /\ command = 0
    /\ postCommand = <<>>
    /\ result = NoResult
    /\ kwargs = NoKwargs
    /\ log = <<>>
    /\ sent = <<>>
    /\ query = None
    /\ found = 0
    /\ it = NoIterator
    /\ pagination = NoPagination
    /\ table = NoTable

(***************************************************************************)
(* SpecRegistry: registrations with names and aliases drawn from Names,     *)
(* and lookups by name.                                                     *)
(***************************************************************************)
Names == {"foo", "bar"}

NextRegistry ==
    \/ \E n \in Names : Register(n, DefaultAttributes)
    \/ \E i \in 1..MaxCommands, a \in SeqUpTo(Names, MaxAliases) : add_aliases(i, a)
    \/ \E n \in Names : Find(n)
    \/ Return

SpecRegistry == Init /\ [][NextRegistry]_vars

(***************************************************************************)
(* Spec: one command is registered with any attributes, parameters and      *)
(* helpers, then messages are handled one after the other.                  *)
(***************************************************************************)
Tokens == {"!", "ping", "extra"}

Messages ==
    [content : SeqUpTo(Tokens, MaxTokens), is_private : BOOLEAN, mentions_bot : BOOLEAN]

\* The attributes given to register; a tournament state is given with
\* RequiredForHost, the only access mode under which it is read.
AttributeValues ==
    {Attributes(p, r, a, None) :
        p \in Range(Permissions), r \in {{"Other"}, {"Other", "Tournament"}},
        a \in ChallongeAccess}
    \cup
    {Attributes(p, r, "RequiredForHost", "underway") :
        p \in Range(Permissions), r \in {{"Other"}, {"Other", "Tournament"}}}

Next ==
    \/ \E a \in AttributeValues : RegisterFirst("ping", a)
    \/ \E p \in {<<"a", "b">>} : add_required_params(1, p)
    \/ \E p \in {<<"c">>} : add_optional_params(1, p)
    \/ \E h \in {<<"account", "announcement">>} : add_helpers(1, h)
    \/ \E m \in Messages : TryExecute(m)
    \/ \E o \in Oracles : ValidateContext(o)
    \/ SendFailure
    \/ \E o \in HelperOracles : Execute(o)
    \/ CallbackReturns
    \/ CallbackRaises
    \/ Return

Spec == Init /\ [][Next]_vars

(***************************************************************************)
(* SpecArgs: one command with any required and optional parameter names,    *)
(* and _fetch_args applied to any token list.                               *)
(***************************************************************************)
ParamNames == {"a", "b", "c"}

ArgTokens == {"x", "y", "z"}

NextArgs ==
    \/ RegisterFirst("ping", DefaultAttributes)
    \/ \E p \in SeqUpTo(ParamNames, MaxParams) : add_required_params(1, p)
    \/ \E p \in SeqUpTo(ParamNames, MaxParams) : add_optional_params(1, p)
    \/ \E post \in SeqUpTo(ArgTokens, MaxTokens + 1) : FetchArgs(post)
    \/ Return

SpecArgs == Init /\ [][NextArgs]_vars

(***************************************************************************)
(* SpecHelp: up to MaxCommands commands, then the commands available to an  *)
(* invoker are enumerated.                                                  *)
(***************************************************************************)
HelpAttributeValues ==
    {Attributes("User", {"Other"}, "NotRequired", None),
     Attributes("Moderator", {"Other"}, "NotRequired", None),
     Attributes("User", {"Other"}, "RequiredForHost", "underway")}

\* The answers of the collaborators during an enumeration: one account error
\* stands for the four.
HelpOracles == {o \in Oracles : o.acc \in {"ok", "UserNotFound"}}

NextHelp ==
    \/ \E n \in Names, a \in HelpAttributeValues : Register(n, a)
    \/ \E i \in 1..MaxCommands : add_required_params(i, <<"a">>)
    \/ NewWrapper
    \/ \E o \in HelpOracles : Anext(o)
    \/ Return

SpecHelp == Init /\ [][NextHelp]_vars

(***************************************************************************)
(* SpecExec: try_execute on private messages for one command that has a     *)
(* tournamentState under every access mode, parameters named like helpers   *)
(* and a helper outside the fixed set.                                      *)
(***************************************************************************)
ExecAttributeValues ==
    {Attributes("User", {"Other"}, a, "underway") : a \in ChallongeAccess}

ExecMessages == {m \in Messages : m.is_private /\ ~m.mentions_bot}

NextExec ==
    \/ \E a \in ExecAttributeValues : RegisterFirst("ping", a)
    \/ \E p \in {<<"announcement">>} : add_required_params(1, p)
    \/ \E p \in {<<"tournament_id">>} : add_optional_params(1, p)
    \/ \E h \in {<<"announcement", "bogus">>, <<"bogus", "tournament_id">>} :
            add_helpers(1, h)
    \/ \E m \in ExecMessages : TryExecute(m)
    \/ \E o \in Oracles : ValidateContext(o)
    \/ SendFailure
    \/ \E o \in HelperOracles : Execute(o)
    \/ CallbackReturns
    \/ CallbackRaises
    \/ Return

SpecExec == Init /\ [][NextExec]_vars

(***************************************************************************)
(* SpecUtils: calls of paginate and print_array.                            *)
(***************************************************************************)
Chars == {"a", "\n", "\r"}

Items == {"i1", "i2"}

\* What a rendering function returns for an item.
Renderings == {None, "", "| r1 |", "| r2 |"}

NextUtils ==
    \/ \E dump \in SeqUpTo(Chars, MaxText), m \in 1..MaxPage : Paginate(dump, m)
    \/ \E title \in {"T", "Title"}, header \in {"| H |", "| Name |"},
          iterable \in SeqUpTo(Items, MaxItems), func \in [Items -> Renderings] :
            PrintArray(title, header, iterable, func)
    \/ Return

SpecUtils == Init /\ [][NextUtils]_vars

(***************************************************************************)
(* Properties.                                                              *)
(***************************************************************************)
\* The operations recorded in the log, in order.
Ops == [i \in DOMAIN log |-> log[i].op]

HasCall(op) == \E i \in DOMAIN log : log[i].op = op

\* What the (first) call of op returned.
ValOf(op) == log[CHOOSE i \in DOMAIN log : log[i].op = op].val

CountCalls(op, val) == Cardinality({i \in DOMAIN log : log[i] = Call(op, val)})

\* The calls made by validate_context when it has just returned
\* (pc = "validated"): the log without the trigger lookup.
ValidationOps == SelectSeq(Ops, LAMBDA op : op # "get_server")

IsPrefix(s, t) == Len(s) <= Len(t) /\ \A i \in DOMAIN s : s[i] = t[i]

\* The order in which validate_context consults its collaborators.
CheckOrder(c) ==
    IF c.attributes.challongeAccess = "RequiredForAuthor"
    THEN <<"get_permissions", "get_channel_type", "get_account">>
    ELSE IF c.attributes.challongeAccess = "RequiredForHost"
    THEN <<"get_permissions", "get_channel_type", "get_tournament", "get_account",
           "validate_tournament_state">>
    ELSE <<"get_permissions", "get_channel_type">>

PermissionFails(c) ==
    PermLevel(ValOf("get_permissions")) < PermLevel(c.attributes.minPermissions)

\* C1: validate_context consults its collaborators in the order permission,
\* channel type, account (then tournament state), and returns the error of
\* the first failing check with no later lookup made; a permission level
\* below minPermissions gives (False, InsufficientPrivileges) whatever the
\* channel, the access mode and the token count; a result is (True, None) or
\* (False, an error).
C1_ValidationOrder ==
    pc = "validated" =>
        LET c == commands[command]
            k == result.exc.kind
        IN  /\ IsPrefix(ValidationOps, CheckOrder(c))
            /\ result.validated <=> (result.exc = NoneExc)
            /\ PermissionFails(c) =>
                 /\ result = [validated |-> FALSE, exc |-> Exc("InsufficientPrivileges")]
                 /\ ValidationOps = <<"get_permissions">>
            /\ k = "InsufficientPrivileges" => PermissionFails(c)
            /\ k = "WrongChannel" =>
                 /\ ValidationOps = <<"get_permissions", "get_channel_type">>
                 /\ ValOf("get_channel_type") \notin c.attributes.channelRestrictions
            /\ k \in AccountErrors =>
                 /\ ValidationOps[Len(ValidationOps)] = "get_account"
                 /\ ValOf("get_account") = k
            /\ k = "BadTournamentState" =>
                 /\ ValidationOps = CheckOrder(c)
                 /\ ValOf("validate_tournament_state") = "bad"
            /\ k \in {"MissingParameters", None} =>
                 /\ ~PermissionFails(c)
                 /\ ValOf("get_channel_type") \in c.attributes.channelRestrictions
                 /\ HasCall("get_account") => ValOf("get_account") = "ok"
                 /\ HasCall("validate_tournament_state") =>
                        ValOf("validate_tournament_state") = "ok"

\* C1 witness: a Moderator command invoked by a User in an allowed channel
\* with enough tokens was refused for its permission level alone.
C1_Witness ==
    /\ pc = "validated"
    /\ command # 0
    /\ commands[command].attributes.minPermissions = "Moderator"
    /\ commands[command].attributes.challongeAccess = "RequiredForHost"
    /\ Len(postCommand) >= Len(commands[command].reqParams)
    /\ result.exc = Exc("InsufficientPrivileges")
    /\ ValidationOps = <<"get_permissions">>

\* The number of times the callback was invoked for the message.
CbCalls == CountCalls("cb", "called")

\* try_execute is over for a message on which a command was recognized and
\* validate_context returned.
Finished == pc \in {"done", "raised"} /\ command # 0 /\ result # NoResult

\* C2 as stated: a failure value is answered by exactly one chat message
\* carrying it and no callback; a success by exactly one callback invocation
\* and no chat message.
C2_AsStated ==
    Finished =>
        /\ result.exc # NoneExc => (sent = <<result.exc>> /\ CbCalls = 0)
        /\ result.validated => (CbCalls = 1 /\ sent = <<>>)

\* C2 amended: a failure value is answered by exactly one chat message
\* carrying it and no callback; on success no chat message is sent and the
\* callback is invoked exactly once, unless argument or helper gathering
\* raised, in which case it is not invoked at all.
C2_ReportOrExecute ==
    /\ Len(sent) <= 1
    /\ CbCalls <= 1
    /\ Finished =>
        /\ result.exc # NoneExc => (sent = <<result.exc>> /\ CbCalls = 0)
        /\ result.validated =>
            /\ sent = <<>>
            /\ CbCalls = (IF kwargs.raised THEN 0 ELSE 1)

\* C2 witness: validation succeeded, a helper lookup raised, and try_execute
\* was left without the callback having been invoked.
C2_Witness ==
    /\ pc = "raised"
    /\ result.validated
    /\ kwargs.raised
    /\ CbCalls = 0
    /\ sent = <<>>

\* Every check of validate_context before the argument count passed.
ChecksPass(c) ==
    /\ ~PermissionFails(c)
    /\ HasCall("get_channel_type")
    /\ ValOf("get_channel_type") \in c.attributes.channelRestrictions
    /\ c.attributes.challongeAccess # "NotRequired" =>
         (HasCall("get_account") /\ ValOf("get_account") = "ok")
    /\ (c.attributes.challongeAccess = "RequiredForHost" /\ c.attributes.tournamentState # None) =>
         (HasCall("validate_tournament_state") /\ ValOf("validate_tournament_state") = "ok")

\* C3: when the permission, channel and account/tournament-state checks
\* pass, validate_context with n tokens on a command with r required
\* parameters returns (False, MissingParameters(r, n)) if n < r and
\* (True, None) otherwise, whatever the optional parameters.
C3_ArgumentCount ==
    (pc = "validated" /\ ChecksPass(commands[command])) =>
        LET r == Len(commands[command].reqParams)
            n == Len(postCommand)
        IN  result = IF n < r
                     THEN [validated |-> FALSE, exc |-> MissingParameters(r, n)]
                     ELSE [validated |-> TRUE, exc |-> NoneExc]

\* C3 witness: MissingParameters(2, 1) for a command that also has an
\* optional parameter.
C3_Witness ==
    /\ pc = "validated"
    /\ ChecksPass(commands[command])
    /\ commands[command].optParams # <<>>
    /\ result = [validated |-> FALSE, exc |-> MissingParameters(2, 1)]

\* The tournament-state validator raised while validate_context was running.
ValidatorRaised == Call("validate_tournament_state", "raise") \in Range(log)

\* C7: an error raised inside validate_context is caught in try_execute: it
\* is logged, no chat message is sent, the callback is not invoked and
\* try_execute ends normally.
C7_ValidationErrorCaught ==
    ValidatorRaised =>
        /\ pc = "done"
        /\ log[Len(log)] = Call("print", "Exception")
        /\ sent = <<>>
        /\ CbCalls = 0
        /\ result = NoResult

\* C7 witness: the validator raised for a recognized command.
C7_Witness == ValidatorRaised /\ command # 0 /\ pc = "done"

\* A command accepts the name n, by its name or by one of its aliases.
Matches(c, n) == c.name = n \/ \E k \in DOMAIN c.aliases : c.aliases[k] = n

Resolves(n) == \E i \in DOMAIN commands : Matches(commands[i], n)

\* The cases in which no command is recognized in message m.
NotRecognizable(m) ==
    LET t == m.content
    IN  \/ Len(t) = 0
        \/ ~m.is_private /\ Len(t) < 2
        \/ ~m.is_private /\ t[1] # commandTrigger /\ ~m.mentions_bot
        \/ m.is_private /\ ~Resolves(t[1])
        \/ ~m.is_private /\ ~Resolves(t[2])

\* C8: on a message in which no command is recognized, try_execute runs no
\* validation, sends no chat message and invokes no callback.
C8_UnrecognizedIgnored ==
    (pc # "idle" /\ NotRecognizable(message)) =>
        /\ pc = "done"
        /\ command = 0
        /\ result = NoResult
        /\ kwargs = NoKwargs
        /\ sent = <<>>
        /\ \A i \in DOMAIN log : log[i].op = "get_server"

\* C8 witness: a server-channel message naming a registered command, without
\* the trigger and without a mention of the bot, was ignored.
C8_Witness ==
    /\ pc = "done"
    /\ ~message.is_private
    /\ ~message.mentions_bot
    /\ Len(message.content) >= 2
    /\ message.content[1] # commandTrigger
    /\ Resolves(message.content[2])
    /\ command = 0

\* The tokens of t after the first k.
Rest(t, k) == [i \in 1..(Len(t) - k) |-> t[i + k]]

\* C9: in a private channel with at least one token the command is
\* find(token 0) and the post-command list the tokens from index 1, the
\* trigger not being consulted; in a server channel the command is
\* find(token 1) and the list the tokens from index 2 exactly when there are
\* at least two tokens and token 0 is the trigger or the bot is mentioned.
\* The private message "ping extra" for a parameterless ping is dispatched
\* with the list [extra] and, once validated, the callback runs.
C9_Recognition ==
    pc # "idle" =>
        LET t == message.content
        IN  /\ (message.is_private /\ Len(t) >= 1) =>
                /\ command = find(commands, t[1])
                /\ command # 0 => postCommand = Rest(t, 1)
                /\ ~HasCall("get_server")
            /\ (~message.is_private) =>
                IF Len(t) >= 2 /\ (t[1] = commandTrigger \/ message.mentions_bot)
                THEN /\ command = find(commands, t[2])
                     /\ command # 0 => postCommand = Rest(t, 2)
                ELSE command = 0
            /\ (/\ message.is_private
                /\ t = <<"ping", "extra">>
                /\ command # 0) =>
                /\ postCommand = <<"extra">>
                /\ (/\ Finished
                    /\ result.validated
                    /\ commands[command].reqParams = <<>>
                    /\ commands[command].optParams = <<>>
                    /\ commands[command].helpers = <<>>) =>
                        /\ CbCalls = 1
                        /\ kwargs = [raised |-> FALSE, kwargs |-> EmptyDict]

\* C9 witness: the private message "ping extra" ran the parameterless ping.
C9_Witness ==
    /\ pc = "done"
    /\ message.is_private
    /\ message.content = <<"ping", "extra">>
    /\ command # 0
    /\ commands[command].reqParams = <<>>
    /\ commands[command].optParams = <<>>
    /\ commands[command].helpers = <<>>
    /\ postCommand = <<"extra">>
    /\ CbCalls = 1
    /\ log[Len(log)] = Call("print", "ValidatedCommand")

\* The state after a call of _fetch_args whose token list covers the
\* required parameters.
ArgsFetched ==
    /\ pc = "done"
    /\ command = 1
    /\ query = None
    /\ message = NoMessage
    /\ Len(postCommand) >= Len(commands[1].reqParams)

\* C4 as stated: the i-th required parameter is bound to token i, the j-th
\* optional parameter to token r+j exactly when that token exists, no other
\* optional parameter has a key, and no other key exists.
C4_AsStated ==
    ArgsFetched =>
        LET req == commands[1].reqParams
            opt == commands[1].optParams
            r == Len(req)
            n == Len(postCommand)
            kw == kwargs.kwargs
        IN  /\ ~kwargs.raised
            /\ \A i \in 1..r : req[i] \in DOMAIN kw /\ kw[req[i]] = postCommand[i]
            /\ \A j \in DOMAIN opt :
                 IF r + j <= n
                 THEN opt[j] \in DOMAIN kw /\ kw[opt[j]] = postCommand[r + j]
                 ELSE opt[j] \notin DOMAIN kw
            /\ DOMAIN kw \subseteq (Range(req) \cup Range(opt))

\* The largest element of a non-empty set of numbers.
Max(S) == CHOOSE x \in S : \A y \in S : y <= x

\* C4 amended: with the declared names taken in the order required then
\* optional, the keys of the map are the names at the positions that have a
\* token, and each key is bound to the token at the last position declaring
\* it; so for pairwise distinct names the i-th required parameter is bound
\* to token i and the j-th optional one to token r+j exactly when it exists,
\* and tokens from index r+o on are not read.
C4_FetchArgs ==
    ArgsFetched =>
        LET names == commands[1].reqParams \o commands[1].optParams
            bound == {p \in DOMAIN names : p <= Len(postCommand)}
            kw == kwargs.kwargs
        IN  /\ ~kwargs.raised
            /\ DOMAIN kw = {names[p] : p \in bound}
            /\ \A k \in DOMAIN kw :
                 kw[k] = postCommand[Max({p \in bound : names[p] = k})]

\* C4 witness: two required and one optional parameter with distinct names
\* and four distinct-enough tokens, the fourth of which is not bound.
C4_Witness ==
    /\ ArgsFetched
    /\ commands[1].reqParams = <<"a", "b">>
    /\ commands[1].optParams = <<"c">>
    /\ postCommand = <<"x", "y", "z", "x">>
    /\ kwargs = [raised |-> FALSE, kwargs |-> [a |-> "x", b |-> "y", c |-> "z"]]

\* find has returned for the name in query.
FindReturned == pc = "done" /\ query # None

\* C5 as stated: find(n) returns a command registered under the name n
\* whenever there is one, even after an earlier command with the alias n.
C5_AsStated ==
    (FindReturned /\ \E i \in DOMAIN commands : commands[i].name = query) =>
        (found # 0 /\ commands[found].name = query)

\* C5 amended: the command registered under the name n is returned exactly
\* when no command registered before it has n as its name or among its
\* aliases; otherwise a command registered before it is returned, so an
\* earlier alias match wins over a later name match.
C5_EarlierMatchWins ==
    FindReturned =>
        \A i \in DOMAIN commands :
            commands[i].name = query =>
                /\ found \in 1..i
                /\ Matches(commands[found], query)
                /\ found = i <=> \A j \in 1..(i - 1) : ~Matches(commands[j], query)

\* C5 witness: the first command has the alias n, the second the name n, and
\* find(n) returned the first.
C5_Witness ==
    /\ FindReturned
    /\ Len(commands) >= 2
    /\ commands[1].name # query
    /\ query \in Range(commands[1].aliases)
    /\ commands[2].name = query
    /\ found = 1

\* C6: find(n) returns the first command in registration order whose name is
\* n or whose aliases contain n, and None exactly when there is none.
C6_FindFirstMatch ==
    FindReturned =>
        IF Resolves(query)
        THEN /\ found \in DOMAIN commands
             /\ Matches(commands[found], query)
             /\ \A j \in 1..(found - 1) : ~Matches(commands[j], query)
        ELSE found = 0

\* C6 witness: the second command was found by its second alias, the first
\* command not matching.
C6_Witness ==
    /\ FindReturned
    /\ found = 2
    /\ commands[2].name # query
    /\ Len(commands[2].aliases) = 2
    /\ commands[2].aliases[1] # query
    /\ commands[2].aliases[2] = query

\* The descriptions of the commands, among the first Len(outcomes), whose
\* validation succeeded or failed with MissingParameters, in registry order.
RECURSIVE ListedUpTo(_, _)
ListedUpTo(outcomes, k) ==
    IF k = 0 THEN <<>>
    ELSE IF outcomes[k] \in {None, "MissingParameters"}
         THEN Append(ListedUpTo(outcomes, k - 1), simple_print(commands[k]))
         ELSE ListedUpTo(outcomes, k - 1)

\* C10 as stated: the wrapper yields, in registry order and once each, the
\* descriptions of the commands whose validation succeeds or fails with
\* MissingParameters, and the iteration ends only when the registry is
\* exhausted.
C10_AsStated ==
    pc = "listing" =>
        /\ it.yielded = ListedUpTo(it.outcomes, Len(it.outcomes))
        /\ it.state \in {"ready", "skipping", "exhausted"}
        /\ it.state = "exhausted" => Len(it.outcomes) = Len(commands)

\* C10 amended: the wrapper yields, in registry order and once each, the
\* descriptions of the visited commands whose validation succeeded or failed
\* with MissingParameters; a command failing for another reason is skipped
\* and the next one is tried; the iteration ends when the registry is
\* exhausted, or when validate_context raises, the error leaving __anext__
\* with the later commands not visited.
C10_Enumeration ==
    pc = "listing" =>
        LET k == Len(it.outcomes)
        IN  /\ it.pos = k
            /\ k <= Len(commands)
            /\ it.yielded = ListedUpTo(it.outcomes, k)
            /\ it.state = "exhausted" => (k = Len(commands) /\ "raised" \notin Range(it.outcomes))
            /\ it.state = "raised" <=> (k > 0 /\ it.outcomes[k] = "raised")
            /\ \A i \in 1..(k - 1) : it.outcomes[i] # "raised"
            /\ it.state = "skipping" =>
                 it.outcomes[k] \in
                     {"InsufficientPrivileges", "WrongChannel", "BadTournamentState"}
                         \cup AccountErrors
            /\ (it.state = "ready" /\ k > 0) => it.outcomes[k] \in {None, "MissingParameters"}

\* C10 witness: a Moderator command then a User command, enumerated for a
\* User: the first was skipped, the second yielded, the registry exhausted.
C10_Witness ==
    /\ pc = "listing"
    /\ it.state = "exhausted"
    /\ Len(commands) = 2
    /\ commands[1].attributes.minPermissions = "Moderator"
    /\ commands[2].attributes.minPermissions = "User"
    /\ it.outcomes = <<"InsufficientPrivileges", None>>
    /\ it.yielded = <<simple_print(commands[2])>>

\* paginate has returned.
Paginated == pc = "done" /\ pagination # NoPagination

\* The concatenation of a list of pages.
RECURSIVE Concat(_)
Concat(pages) == IF pages = <<>> THEN <<>> ELSE pages[1] \o Concat(Tail(pages))

\* The offsets of a text at which a line starts or the text ends.
LineBoundaries(dump) ==
    {0, Len(dump)} \cup
    {i \in 1..Len(dump) :
        /\ dump[i] \in {"\n", "\r"}
        /\ ~(dump[i] = "\r" /\ i < Len(dump) /\ dump[i + 1] = "\n")}

\* C11: the pages returned by paginate(text, max_per_page), max_per_page >= 1,
\* concatenated in order give text back, and every boundary between two
\* consecutive pages is at a line boundary of text.
C11_PagesRebuildText ==
    Paginated =>
        LET pages == pagination.paginated
        IN  /\ Concat(pages) = pagination.dump
            /\ \A k \in 1..(Len(pages) - 1) :
                 Len(Concat(SubSeq(pages, 1, k))) \in LineBoundaries(pagination.dump)

\* C11 witness: three lines of two characters with max_per_page 3 gave two
\* non-empty pages, cut after the first line.
C11_Witness ==
    /\ Paginated
    /\ pagination.dump = <<"a", "\n", "a", "\n", "a", "\n">>
    /\ pagination.max_per_page = 3
    /\ pagination.paginated = <<<<"a", "\n">>, <<"a", "\n", "a", "\n">>>>

\* C12 as stated: when every line of text, terminator included, is shorter
\* than max_per_page, no page has more than max_per_page characters, the
\* last one included.
C12_AsStated ==
    (/\ Paginated
     /\ \A l \in Range(splitlines(pagination.dump)) : Len(l) < pagination.max_per_page) =>
        \A k \in DOMAIN pagination.paginated :
            Len(pagination.paginated[k]) <= pagination.max_per_page

\* C12: what the code does keep: every page but the last is shorter than
\* max_per_page, and the last page is shorter than twice max_per_page.
C12_AllButLastPage ==
    (/\ Paginated
     /\ \A l \in Range(splitlines(pagination.dump)) : Len(l) < pagination.max_per_page) =>
        LET pages == pagination.paginated
        IN  /\ \A k \in 1..(Len(pages) - 1) : Len(pages[k]) < pagination.max_per_page
            /\ Len(pages[Len(pages)]) < 2 * pagination.max_per_page

\* C12 witness: two lines of two characters with max_per_page 3 gave a single
\* page of four characters.
C12_Witness ==
    /\ Paginated
    /\ pagination.dump = <<"a", "\n", "a", "\n">>
    /\ pagination.max_per_page = 3
    /\ pagination.paginated = <<pagination.dump>>

\* print_array has returned.
Printed == pc = "done" /\ table # NoTable

\* C13: between the five heading lines and the closing border print_array
\* emits the renderings func(x) that are neither None nor empty, one row per
\* such item, in the order of the items.
C13_RowsRendered ==
    Printed =>
        LET kept == SelectSeq(table.iterable, LAMBDA x : table.func[x] \notin {None, ""})
            arr == table.arr
        IN  /\ Len(arr) = 5 + Len(kept) + 1
            /\ \A k \in DOMAIN kept : arr[5 + k] = table.func[kept[k]]
            /\ arr[4] = table.header
            /\ arr[Len(arr)] = arr[1]
            /\ arr[1] = ljust("", Len(table.header), "=")
            /\ table.finalStr = JoinLines(arr)

\* C13 witness: of three items the second rendered to the empty string and
\* was omitted, the other two rows keeping their order.
C13_Witness ==
    /\ Printed
    /\ table.iterable = <<"i1", "i2", "i1">>
    /\ table.func["i1"] = "| r1 |"
    /\ table.func["i2"] = ""
    /\ table.header = "| H |"
    /\ table.title = "T"
    /\ table.finalStr = "=====\n| T |\n|---|\n| H |\n|---|\n| r1 |\n| r1 |\n====="

\* C14 as stated: no two commands of the registry have the same name.
C14_AsStated ==
    \A i, j \in DOMAIN commands : commands[i].name = commands[j].name => i = j

\* C14 amended: register checks no name: whatever the registry holds, a
\* registration under any name, one already present included, appends a new
\* command after the existing ones (here while the registry has fewer than
\* MaxCommands commands), so the registry can hold two commands of one name.
C14_RegisterChecksNoName ==
    (pc = "idle" /\ Len(commands) < MaxCommands) =>
        \A n \in Names :
            ENABLED (/\ Register(n, DefaultAttributes)
                     /\ commands' = Append(commands, Command(n, DefaultAttributes)))

\* C14 witness: two commands registered under one name, of which find
\* returned the first.
C14_Witness ==
    /\ FindReturned
    /\ Len(commands) = 2
    /\ commands[1].name = query
    /\ commands[2].name = query
    /\ found = 1

\* validate_context returned for a RequiredForHost command with a
\* tournamentState, the permission and channel-type checks having passed.
HostStateChecked ==
    /\ pc = "validated"
    /\ commands[command].attributes.challongeAccess = "RequiredForHost"
    /\ commands[command].attributes.tournamentState # None
    /\ ~PermissionFails(commands[command])
    /\ HasCall("get_channel_type")
    /\ ValOf("get_channel_type") \in commands[command].attributes.channelRestrictions

\* C15: for such a command, an error of the host account lookup is returned
\* unchanged as (False, error) without the validator being invoked; with an
\* account, the result is (False, BadTournamentState) exactly when the
\* validator answers that the tournament is not in the required state,
\* whatever the number of tokens.
C15_HostAccountThenState ==
    HostStateChecked =>
        /\ HasCall("get_account")
        /\ ValOf("get_account") # "ok" =>
             /\ result = [validated |-> FALSE, exc |-> Exc(ValOf("get_account"))]
             /\ ~HasCall("validate_tournament_state")
        /\ ValOf("get_account") = "ok" =>
             /\ HasCall("validate_tournament_state")
             /\ (result = [validated |-> FALSE, exc |-> Exc("BadTournamentState")])
                    <=> (ValOf("validate_tournament_state") = "bad")

\* C15 witness: BadTournamentState returned although a required token is
\* missing as well.
C15_Witness ==
    /\ HostStateChecked
    /\ Len(postCommand) < Len(commands[command].reqParams)
    /\ ValOf("get_account") = "ok"
    /\ result.exc = Exc("BadTournamentState")

ExecutionRaised == kwargs.raised \/ Call("cb", "raise") \in Range(log)

\* C17: after a successful validation, an error raised by helper resolution,
\* argument extraction or the callback leaves try_execute uncaught: no chat
\* message is sent and the success line is not written.
C17_ExecutionErrorPropagates ==
    /\ ExecutionRaised <=> pc = "raised"
    /\ ExecutionRaised =>
         /\ result = [validated |-> TRUE, exc |-> NoneExc]
         /\ sent = <<>>
         /\ Call("print", "ValidatedCommand") \notin Range(log)
         /\ Call("send_message", "Exception") \notin Range(log)

\* C17 witness: the callback was invoked and raised.
C17_Witness ==
    /\ pc = "raised"
    /\ CbCalls = 1
    /\ log[Len(log)] = Call("cb", "raise")
    /\ ~kwargs.raised

\* The position of the first call of op in the log.
FirstCall(op) == CHOOSE i \in DOMAIN log : log[i].op = op /\ \A j \in 1..(i - 1) : log[j].op # op

\* The account helper's lookup, made after a successful validation of a
\* command that requires an account, found no account.
SecondLookupFailed ==
    /\ pc \in {"callback", "done", "raised"}
    /\ command # 0
    /\ commands[command].attributes.challongeAccess # "NotRequired"
    /\ "account" \in Range(commands[command].helpers)
    /\ Call("account", None) \in Range(log)

\* C20: for a command requiring an account and declaring the account helper,
\* the account handed to the callback comes from a second lookup made after
\* validate_context returned; when that lookup fails although validation
\* passed, the callback is still invoked, with an absent account, and no
\* failure message is sent.
C20_SecondLookupUnchecked ==
    SecondLookupFailed =>
        /\ result = [validated |-> TRUE, exc |-> NoneExc]
        /\ Call("get_account", "ok") \in Range(log)
        /\ FirstCall("get_account") < FirstCall("account")
        /\ CbCalls = 1
        /\ FirstCall("account") < FirstCall("cb")
        /\ kwargs.kwargs["account"] = None
        /\ sent = <<>>
        /\ ~HasCall("send_message")

\* C20 witness: a RequiredForHost command whose validation found the host
\* account ran to the success line with an absent account.
C20_Witness ==
    /\ SecondLookupFailed
    /\ pc = "done"
    /\ commands[command].attributes.challongeAccess = "RequiredForHost"
    /\ log[Len(log)] = Call("print", "ValidatedCommand")
    /\ kwargs.kwargs["account"] = None

\* The helper names _fetch_helpers resolves.
FixedHelpers ==
    {"account", "tournament_id", "tournament_role", "tournament_channel",
     "participant_username", "announcement"}

\* The callback was invoked for the message being handled.
CallbackInvoked == pc \in {"callback", "done", "raised"} /\ command # 0 /\ CbCalls = 1

\* C18: the callback receives the positional arguments overlaid with the
\* resolved helpers: a key that is both a parameter and a declared helper of
\* the fixed set carries the helper's value, any other parameter key its
\* token, and a helper outside the fixed set adds no key.
C18_HelpersOverlayArguments ==
    CallbackInvoked =>
        LET c == commands[command]
            args == _fetch_args(c, postCommand).kwargs
            resolved == Range(c.helpers) \cap FixedHelpers
            kw == kwargs.kwargs
        IN  /\ ~kwargs.raised
            /\ DOMAIN kw = DOMAIN args \cup resolved
            /\ \A k \in DOMAIN args \ resolved : kw[k] = args[k]
            /\ "announcement" \in resolved => kw["announcement"] = Join(postCommand)
            /\ \A k \in resolved \ {"announcement"} : kw[k] = ValOf(k)
            /\ \A k \in Range(c.helpers) \ FixedHelpers : k \in DOMAIN kw => k \in DOMAIN args

\* C18 witness: a parameter and a helper both named announcement, and a
\* helper bogus: the callback got the joined tokens, not the first token,
\* and no key bogus.
C18_Witness ==
    /\ CallbackInvoked
    /\ pc = "done"
    /\ commands[command].reqParams = <<"announcement">>
    /\ commands[command].helpers = <<"announcement", "bogus">>
    /\ postCommand = <<"extra", "ping">>
    /\ kwargs.kwargs = [announcement |-> "extra ping"]

\* A command was recognized whose tournamentState is set although its
\* challongeAccess is not RequiredForHost.
StateWithoutHost ==
    /\ command # 0
    /\ message # NoMessage
    /\ commands[command].attributes.tournamentState # None
    /\ commands[command].attributes.challongeAccess # "RequiredForHost"

\* C19: for a command with challongeAccess NotRequired or RequiredForAuthor
\* and a tournamentState, validate_context never invokes the
\* tournament-state validator and never returns BadTournamentState.
C19_StateOnlyForHost ==
    StateWithoutHost =>
        /\ ~HasCall("validate_tournament_state")
        /\ result.exc # Exc("BadTournamentState")
        /\ ~HasCall("get_tournament")

\* C19 witness: a RequiredForAuthor command with a tournamentState was
\* validated and its callback ran, the validator never having been asked.
C19_Witness ==
    /\ StateWithoutHost
    /\ commands[command].attributes.challongeAccess = "RequiredForAuthor"
    /\ pc = "done"
    /\ result = [validated |-> TRUE, exc |-> NoneExc]
    /\ CbCalls = 1
    /\ log[Len(log)] = Call("print", "ValidatedCommand")
    /\ ~HasCall("validate_tournament_state")

=============================================================================
